---- MODULE Spec2Model ----
(***************************************************************************)
(* Model of src/main.py, the SOL autotrade bot: one polling loop that      *)
(* reads a price and the balances from the exchange, reads the reference   *)
(* ("base") price from the table sol_bot_state, and sells everything at    *)
(* +TP_PERCENT or buys ORDER_USDT worth at -DIP_PERCENT.                   *)
(*                                                                         *)
(* Units.  Prices and USDT amounts are integers in cents (0.01 USDT).      *)
(* Holdings read from the wallet are integers in micro-SOL (1e-6 SOL, the  *)
(* precision of round(.., 6) in quantize_qty).  A quantity handed to       *)
(* quantize_qty is the exact fraction num/den of milli-SOL, so that        *)
(* ORDER_USDT / price is represented without loss; QTY_STEP = 0.001 SOL    *)
(* is one milli-SOL.                                                       *)
(*                                                                         *)
(* Floating point.  The program computes in IEEE-754 binary64.  On the     *)
(* values of this model the binary64 result differs from the exact one in  *)
(* three places only, each at an exact tie: math.floor(qty / QTY_STEP) on  *)
(* a whole number of steps (FloorLoses), price >= tp_level when price is   *)
(* exactly the take-profit level (TpLevelRoundsUp), and price <= dip_level *)
(* when price is exactly the dip level (DipLevelRoundsDown).  The three    *)
(* sets list the values at which binary64 rounds to the other side.        *)
(*                                                                         *)
(* Stop signal.  A pass runs from its first call to its last without any   *)
(* other actor, so main takes it in one step.  The one thing that can cut  *)
(* a pass short is KeyboardInterrupt: no `except Exception` of the loop    *)
(* catches it, so it leaves main() from wherever the pass is (in a call to *)
(* the exchange, the database, Telegram or time.sleep) and ends the        *)
(* program with what the pass had done up to there.                        *)
(***************************************************************************)
EXTENDS Integers, Sequences, FiniteSets

VARIABLES sol_bot_state,   \* the rows of table sol_bot_state: [symbol, base_price]
          status,          \* "running" | "crashed" | "stopped": what became of main()
          tick,            \* what the latest pass that got an answer read and did
          q_in,            \* the argument of a call of quantize_qty on its own
          q_out            \* the value that call returned ({} before the call)

vars == <<sol_bot_state, status, tick, q_in, q_out>>

----------------------------------------------------------------------------
(* Configuration (defaults of the environment variables).                  *)

SYMBOL == "SOLUSDT"
DIP_PERCENT == 5
TP_PERCENT == 4
ORDER_USDT == 2500              \* 25.0 USDT, in cents
MIN_POSITION_USDT == 500        \* 5.0 USDT, in cents
POLL_INTERVAL_SECONDS == 30
QTY_STEP == 1                   \* 0.001 SOL, in milli-SOL
MicroPerMilli == 1000           \* micro-SOL in one milli-SOL
MilliPerSol == 1000             \* milli-SOL in one SOL

----------------------------------------------------------------------------
(* Values the collaborators can return.                                    *)

\* lastPrice values of get_tickers, in cents.
Prices == {0, 9215, 9400, 9700, 9776, 10000, 10088, 57500, 3000000, 3200000}

\* walletBalance of SOL, in micro-SOL: nothing, dust below one step, 0.043,
\* 0.05 (worth exactly 5 USDT at 100.00) and 0.265.
Holdings == {0, 500, 43000, 50000, 265000}

\* availableToWithdraw of USDT, in cents: just below and exactly ORDER_USDT.
QuoteBalances == {2499, 2500}

----------------------------------------------------------------------------
(* binary64 rounding at exact ties (see the header).                       *)

\* Whole step counts k < 300 with math.floor((k * 0.001) / 0.001) = k - 1.
FloorLoses ==
    {43, 51, 59, 71, 86, 87, 102, 103, 118, 119, 141, 142, 143, 172, 173,
     174, 175, 204, 205, 206, 207, 235, 236, 237, 238, 239, 282, 283, 284,
     285, 286, 287}

\* Reference prices R of Prices whose take-profit level is a price of Prices
\* and for which binary64 R * (1.0 + 4.0 / 100.0) lies above the exact level.
TpLevelRoundsUp == {9700}

\* Reference prices R of Prices whose dip level is a price of Prices and for
\* which binary64 R * (1.0 - 5.0 / 100.0) lies below the exact level.
DipLevelRoundsDown == {9700}

----------------------------------------------------------------------------
(* Events of one pass, in the order the program performs them.             *)

Ev(op, tag, num) == <<op, tag, num>>

Sleep == Ev("sleep", "", POLL_INTERVAL_SECONDS)

\* send_telegram: posts the message; a failure of the post is caught inside.
send_telegram(kind, delivered) ==
    <<Ev("notify", kind, IF delivered THEN 1 ELSE 0)>>

----------------------------------------------------------------------------
(* Reference price store.                                                  *)

Row(symbol, price) == [symbol |-> symbol, base_price |-> price]

\* SELECT base_price ... WHERE symbol = %s LIMIT 1: the empty set is None.
get_base_price(rows, symbol) ==
    LET found == {r \in rows : r.symbol = symbol}
    IN  IF found = {} THEN {} ELSE {(CHOOSE r \in found : TRUE).base_price}

\* set_base_price with the INSERT lost: the table is left as it was.
set_base_price_lost(rows, symbol, price) == rows

\* set_base_price into a column that keeps whole USDT only: the price is
\* stored without its cents.
set_base_price_whole_usdt(rows, symbol, price) ==
    {r \in rows : r.symbol # symbol} \cup {Row(symbol, (price \div 100) * 100)}

\* set_base_price as a plain INSERT, without the ON CONFLICT clause, into a
\* table that lets a second row for the symbol in.
set_base_price_appends(rows, symbol, price) ==
    rows \cup {Row(symbol, price)}

\* INSERT ... ON CONFLICT (symbol) DO UPDATE SET base_price = EXCLUDED.base_price
set_base_price(rows, symbol, price) ==
    {r \in rows : r.symbol # symbol} \cup {Row(symbol, price)}

\* A failing write that has taken effect all the same: the exception comes
\* after the statement was committed (the connection is in autocommit).
TrySetBasePrice_failed_write_applies(rows, price, write_ok) ==
    [rows |-> set_base_price(rows, SYMBOL, price),
     events |-> <<Ev("write", IF write_ok THEN "ok" ELSE "fail", price)>>]

\* try: set_base_price(...) except Exception: print(...)
TrySetBasePrice(rows, price, write_ok) ==
    IF write_ok
    THEN [rows |-> set_base_price(rows, SYMBOL, price),
          events |-> <<Ev("write", "ok", price)>>]
    ELSE [rows |-> rows, events |-> <<Ev("write", "fail", price)>>]

----------------------------------------------------------------------------
(* Quantities.                                                             *)

Qty(num, den) == [num |-> num, den |-> den]

\* round(qty / QTY_STEP) in place of math.floor: to the nearest step.
FloorSteps_nearest(qty) ==
    LET d == qty.den * QTY_STEP
    IN  (2 * qty.num + d) \div (2 * d)

\* math.floor(qty / QTY_STEP) in binary64.
FloorSteps(qty) ==
    LET d == qty.den * QTY_STEP
        k == qty.num \div d
    IN  IF qty.num % d = 0 /\ k \in FloorLoses THEN k - 1 ELSE k

quantize_qty(qty) ==
    IF qty.num <= 0
    THEN Qty(0, 1)
    ELSE Qty(FloorSteps(qty) * QTY_STEP, 1)

\* place_market_order with the retCode check lost: a rejected order returns
\* like an accepted one.
place_market_order_unchecked(side, qty, accepted) ==
    LET qty_adj == quantize_qty(qty)
    IN  IF qty_adj.num <= 0
        THEN [raised |-> TRUE, events |-> <<>>]
        ELSE IF ~accepted
        THEN [raised |-> FALSE,
              events |-> <<Ev("order", side, qty_adj.num),
                           Ev("rejected", side, qty_adj.num)>>]
        ELSE [raised |-> FALSE,
              events |-> <<Ev("order", side, qty_adj.num)>>]

\* place_market_order without the qty_adj <= 0 check: a zero quantity is sent
\* to the exchange like any other.
place_market_order_zero_sent(side, qty, accepted) ==
    LET qty_adj == quantize_qty(qty)
    IN  IF ~accepted
        THEN [raised |-> TRUE,
              events |-> <<Ev("order", side, qty_adj.num),
                           Ev("rejected", side, qty_adj.num)>>]
        ELSE [raised |-> FALSE,
              events |-> <<Ev("order", side, qty_adj.num)>>]

\* place_market_order: order |-> the qty put on the wire (in steps of 0.001
\* SOL), raised |-> whether it ends in an exception.
place_market_order(side, qty, accepted) ==
    LET qty_adj == quantize_qty(qty)
    IN  IF qty_adj.num <= 0
        THEN [raised |-> TRUE, events |-> <<>>]
        ELSE IF ~accepted
        THEN [raised |-> TRUE,
              events |-> <<Ev("order", side, qty_adj.num),
                           Ev("rejected", side, qty_adj.num)>>]
        ELSE [raised |-> FALSE,
              events |-> <<Ev("order", side, qty_adj.num)>>]

----------------------------------------------------------------------------
(* Decision arithmetic of the loop body.                                   *)

CeilDiv(a, b) == (a + b - 1) \div b

\* has_position with > in place of >=: holdings worth exactly
\* MIN_POSITION_USDT count as flat.
has_position_strict(sol_total, price) ==
    /\ price > 0
    /\ sol_total > (MIN_POSITION_USDT * MicroPerMilli * MilliPerSol) \div price

\* position_value = sol_total * price;  has_position = position_value >=
\* MIN_POSITION_USDT.  With sol_total in micro-SOL and price in cents this
\* is sol_total * price >= MIN_POSITION_USDT * 10^6, written without the
\* product.
has_position(sol_total, price) ==
    /\ price > 0
    /\ sol_total >= CeilDiv(MIN_POSITION_USDT * MicroPerMilli * MilliPerSol, price)

\* price >= base_price * (1.0 + TP_PERCENT / 100.0)
ReachesTp(price, base_price) ==
    \/ price * 100 > base_price * (100 + TP_PERCENT)
    \/ /\ price * 100 = base_price * (100 + TP_PERCENT)
       /\ base_price \notin TpLevelRoundsUp

\* The dip test against the reference itself instead of the dip level: any
\* price below the reference counts as a dip.
ReachesDip_any_drop(price, base_price) == price < base_price

\* price <= base_price * (1.0 - DIP_PERCENT / 100.0)
ReachesDip(price, base_price) ==
    \/ price * 100 < base_price * (100 - DIP_PERCENT)
    \/ /\ price * 100 = base_price * (100 - DIP_PERCENT)
       /\ base_price \notin DipLevelRoundsDown

----------------------------------------------------------------------------
(* One pass through the body of `while True`.                              *)

\* What the collaborators answer during one pass.
\* A failed get_spot_price or get_balances ends the pass before anything else
\* is asked, so the other answers of such a pass are fixed to one value.
Unasked(a) ==
    /\ a.price = 0 /\ a.sol_total = 0 /\ a.usdt_available = 2499
    /\ a.read_ok /\ a.write_ok /\ a.order_ok /\ a.tg_ok

Answers ==
    {a \in [price_ok : BOOLEAN, bal_ok : BOOLEAN, price : Prices,
            sol_total : Holdings, usdt_available : QuoteBalances,
            read_ok : BOOLEAN, write_ok : BOOLEAN, order_ok : BOOLEAN,
            tg_ok : BOOLEAN] :
        \/ a.price_ok /\ a.bal_ok
        \/ a.price_ok # a.bal_ok /\ Unasked(a)}

\* try: get_spot_price(...); get_balances(...) except Exception: sleep; continue
\* with the except clause covering get_spot_price only.
GatewayFailed_price_only(a) == ~a.price_ok

\* try: get_spot_price(...); get_balances(...) except Exception: sleep; continue
GatewayFailed(a) == ~a.price_ok \/ ~a.bal_ok

\* The result of a pass: the table, what became of main(), and the record of
\* the answers the pass got, the reference it read and what it did.
Out(rows, st, a, base_price, events) ==
    [rows |-> rows, status |-> st,
     rec |-> [price_ok |-> a.price_ok, bal_ok |-> a.bal_ok,
              price |-> a.price, sol_total |-> a.sol_total,
              usdt_available |-> a.usdt_available,
              base_price |-> base_price,
              events |-> events]]

Crash(line) == <<Ev("crash", "ZeroDivisionError", line)>>

\* 2) no position -> dip buy (lines 296-337)
DipBuy(rows, a, base, read_ev) ==
    IF ReachesDip(a.price, base)
    THEN IF a.usdt_available < ORDER_USDT
         THEN Out(rows, "running", a, {base},
                  read_ev \o send_telegram("nofunds", a.tg_ok) \o <<Sleep>>)
         ELSE IF a.price = 0
         THEN Out(rows, "crashed", a, {base}, read_ev \o Crash(312))
         ELSE LET est_qty == Qty(ORDER_USDT * MilliPerSol, a.price)
                  qty == quantize_qty(est_qty)
                  o == place_market_order("Buy", qty, a.order_ok)
              IN  IF o.raised
                  THEN Out(rows, "running", a, {base},
                           read_ev \o o.events \o <<Sleep>>)
                  ELSE LET w == TrySetBasePrice(rows, a.price, a.write_ok)
                       IN  Out(w.rows, "running", a, {base},
                               read_ev \o o.events \o w.events
                                       \o send_telegram("buy", a.tg_ok) \o <<Sleep>>)
    ELSE Out(rows, "running", a, {base}, read_ev \o <<Sleep>>)

\* The take-profit branch without its `continue`: a pass that holds a
\* position and does not sell goes on into the dip-buy branch.
TakeProfit_falls_through(rows, a, base, read_ev) ==
    IF ReachesTp(a.price, base)
    THEN LET o == place_market_order("Sell", Qty(a.sol_total, MicroPerMilli), a.order_ok)
         IN  IF o.raised
             THEN Out(rows, "running", a, {base}, read_ev \o o.events \o <<Sleep>>)
             ELSE LET w == TrySetBasePrice(rows, a.price, a.write_ok)
                  IN  Out(w.rows, "running", a, {base},
                          read_ev \o o.events \o send_telegram("tp", a.tg_ok)
                                  \o w.events \o <<Sleep>>)
    ELSE DipBuy(rows, a, base, read_ev)

\* The take-profit branch with a send_telegram that lets the error of the
\* post escape: the pass ends at the failed notification, before the write.
TakeProfit_notify_raises(rows, a, base, read_ev) ==
    IF ReachesTp(a.price, base)
    THEN LET o == place_market_order("Sell", Qty(a.sol_total, MicroPerMilli), a.order_ok)
         IN  IF o.raised
             THEN Out(rows, "running", a, {base}, read_ev \o o.events \o <<Sleep>>)
             ELSE IF ~a.tg_ok
             THEN Out(rows, "crashed", a, {base},
                      read_ev \o o.events \o send_telegram("tp", a.tg_ok))
             ELSE LET w == TrySetBasePrice(rows, a.price, a.write_ok)
                  IN  Out(w.rows, "running", a, {base},
                          read_ev \o o.events \o send_telegram("tp", a.tg_ok)
                                  \o w.events \o <<Sleep>>)
    ELSE Out(rows, "running", a, {base}, read_ev \o <<Sleep>>)

\* 1) position held -> take profit (lines 262-291)
TakeProfit(rows, a, base, read_ev) ==
    IF ReachesTp(a.price, base)
    THEN LET o == place_market_order("Sell", Qty(a.sol_total, MicroPerMilli), a.order_ok)
         IN  IF o.raised
             THEN Out(rows, "running", a, {base}, read_ev \o o.events \o <<Sleep>>)
             ELSE LET w == TrySetBasePrice(rows, a.price, a.write_ok)
                  IN  Out(w.rows, "running", a, {base},
                          read_ev \o o.events \o send_telegram("tp", a.tg_ok)
                                  \o w.events \o <<Sleep>>)
    ELSE Out(rows, "running", a, {base}, read_ev \o <<Sleep>>)

\* The body of `while True` (lines 219-337).
LoopBody(rows, a) ==
    IF GatewayFailed(a)
    THEN Out(rows, "running", a, {}, <<Sleep>>)
    ELSE LET base_price == IF a.read_ok THEN get_base_price(rows, SYMBOL) ELSE {}
             read_ev == <<Ev("read", IF a.read_ok THEN "ok" ELSE "fail", 0)>>
         IN  IF base_price = {}
             THEN LET w == TrySetBasePrice(rows, a.price, a.write_ok)
                  IN  Out(w.rows, "running", a, base_price,
                          read_ev \o w.events \o send_telegram("init", a.tg_ok)
                                  \o <<Sleep>>)
             ELSE LET base == CHOOSE b \in base_price : TRUE
                  IN  IF base = 0
                      THEN Out(rows, "crashed", a, base_price,
                               read_ev \o Crash(252))
                      ELSE IF has_position(a.sol_total, a.price)
                      THEN TakeProfit(rows, a, base, read_ev)
                      ELSE DipBuy(rows, a, base, read_ev)

----------------------------------------------------------------------------
(* The state machine.                                                      *)

NoTick == [price_ok |-> TRUE, bal_ok |-> TRUE, price |-> 0, sol_total |-> 0,
           usdt_available |-> 0, base_price |-> {}, events |-> << >>]

Init ==
    /\ sol_bot_state = {}
    /\ status = "running"
    /\ tick = NoTick
    /\ q_in = Qty(0, 1)
    /\ q_out = {}

\* main: one iteration of `while True`.
main ==
    /\ status = "running"
    /\ \E a \in Answers :
          \E r \in {LoopBody(sol_bot_state, a)} :
              /\ sol_bot_state' = r.rows
              /\ status' = r.status
              /\ tick' = r.rec
    /\ UNCHANGED <<q_in, q_out>>

\* The pass with result r, started on table rows, left by KeyboardInterrupt
\* when it had performed the first k of its events: the table has the write
\* of the pass if that write is one of them, and the reference counts as
\* read from the first event (the SELECT) on.
Interrupted(rows, r, k) ==
    LET events == SubSeq(r.rec.events, 1, k)
        written == \E i \in 1 .. k : events[i][1] = "write"
    IN  [rows |-> IF written THEN r.rows ELSE rows,
         status |-> "stopped",
         rec |-> [r.rec EXCEPT !.events = events,
                               !.base_price = IF k = 0 THEN {} ELSE @]]

\* The tables the program leaves behind: no row, or the one row of SYMBOL.
Tables == {{}} \cup {{Row(SYMBOL, p)} : p \in Prices}

\* The passes KeyboardInterrupt can cut short, for each table they can start
\* on: every pass of the loop body at every point before its last event.
Interruptions ==
    [rows \in Tables |->
        UNION {{Interrupted(rows, r, k) : k \in 0 .. (Len(r.rec.events) - 1)} :
                  r \in {LoopBody(rows, a) : a \in Answers}}]

\* __main__: KeyboardInterrupt ends main().  It is raised in the pass that
\* is under way: in the sleep that ends it or in get_tickers of the next
\* one, before that has any answer; in get_wallet_balance, with the price
\* read; or later, when the pass has performed some of its events and not
\* yet the last one.
KeyboardInterrupt ==
    /\ status = "running"
    /\ status' = "stopped"
    /\ \/ UNCHANGED <<sol_bot_state, tick>>
       \/ \E p \in Prices :
             /\ tick' = [NoTick EXCEPT !.price = p]
             /\ UNCHANGED sol_bot_state
       \/ \E c \in Interruptions[sol_bot_state] :
             /\ sol_bot_state' = c.rows
             /\ tick' = c.rec
    /\ UNCHANGED <<q_in, q_out>>

Next == main \/ KeyboardInterrupt

Spec == Init /\ [][Next]_vars

----------------------------------------------------------------------------
(* quantize_qty on its own: one call on each argument of QuantizeInputs.   *)

\* Arguments reach MaxQuantizeInput quarter steps (0.00025 SOL each) and go
\* down to one step below zero.
MaxQuantizeInput == 240

QuantizeInputs == {Qty(n, 4) : n \in (0 - 4) .. MaxQuantizeInput}

QuantizeInit ==
    /\ sol_bot_state = {}
    /\ status = "running"
    /\ tick = NoTick
    /\ q_in \in QuantizeInputs
    /\ q_out = {}

Quantize ==
    /\ q_out = {}
    /\ q_out' = {quantize_qty(q_in)}
    /\ UNCHANGED <<sol_bot_state, status, tick, q_in>>

QuantizeNext == Quantize

QuantizeSpec == QuantizeInit /\ [][QuantizeNext]_vars

----------------------------------------------------------------------------
(* Vocabulary of the properties: what a pass t did.                        *)

Did(t, op) == \E i \in DOMAIN t.events : t.events[i][1] = op
DidEv(t, e) == \E i \in DOMAIN t.events : t.events[i] = e
Count(t, op) == Cardinality({i \in DOMAIN t.events : t.events[i][1] = op})
Orders(t, side) ==
    {i \in DOMAIN t.events : t.events[i][1] = "order" /\ t.events[i][2] = side}

Passed(t) == t.events # << >>
Fetched(t) == Passed(t) /\ t.price_ok /\ t.bal_ok
FetchFailed(t) == Passed(t) /\ ~(t.price_ok /\ t.bal_ok)
ReadOk(t) == DidEv(t, Ev("read", "ok", 0))
ReadFailed(t) == DidEv(t, Ev("read", "fail", 0))
WroteOk(t) == DidEv(t, Ev("write", "ok", t.price))
Rejected(t) == Did(t, "rejected")
Slept(t) == Passed(t) /\ t.events[Len(t.events)] = Sleep

\* The pass ran to its end, the sleep or the error that ended the program:
\* it was not cut short by KeyboardInterrupt.
Ended(t) == Passed(t) /\ t.events[Len(t.events)][1] \in {"sleep", "crash"}
SuccessNotified(t) == \E n \in {0, 1} :
    DidEv(t, Ev("notify", "tp", n)) \/ DidEv(t, Ev("notify", "buy", n))

\* The pass read a reference R from the store.
Ref(t) == CHOOSE b \in t.base_price : TRUE
HasRef(t) == Fetched(t) /\ ReadOk(t) /\ t.base_price # {}

\* The pass found the store without a row for the pair.
FoundNoRef(t) == Fetched(t) /\ ReadOk(t) /\ t.base_price = {}

Stored == {r.base_price : r \in sol_bot_state}

----------------------------------------------------------------------------
(* Properties.                                                             *)

\* C1, as stated: on a pass that finds no reference price in the store no
\* order is submitted, and after the pass (when it has run to its sleep) the
\* store holds exactly the price observed in that pass.
C1_FirstTickStoresPrice ==
    FoundNoRef(tick) => /\ ~Did(tick, "order")
                        /\ Slept(tick) => Stored = {tick.price}

\* C1, amended: on a pass that finds no reference price in the store no order
\* is submitted and the observed price is written (once, by the time the
\* pass sleeps); when that write succeeds the store afterwards holds exactly
\* the observed price, and when it fails, or the pass is stopped before it,
\* the store is still without a reference.
C1_FirstTickCalibrates ==
    FoundNoRef(tick) => /\ ~Did(tick, "order")
                        /\ Count(tick, "write") <= 1
                        /\ Slept(tick) => Count(tick, "write") = 1
                        /\ WroteOk(tick) => Stored = {tick.price}
                        /\ ~WroteOk(tick) => Stored = {}

C1_Witness ==
    /\ FoundNoRef(tick) /\ WroteOk(tick) /\ Slept(tick)
    /\ tick.price = 9400 /\ tick.sol_total = 265000 /\ tick.usdt_available = 2500
    /\ Stored = {9400}

\* C2: when reading the reference price fails, the pass is aborted: the pair
\* is not treated as uninitialized, nothing is written to the store, no
\* order is submitted and the stored reference is the same after the pass.
C2_ReadFailureAborts ==
    [][ReadFailed(tick') =>
          /\ ~Did(tick', "write")
          /\ ~Did(tick', "order")
          /\ ~Did(tick', "notify")
          /\ sol_bot_state' = sol_bot_state]_vars

\* C3: when get_spot_price or get_balances fails, the pass reads and writes
\* no reference, submits no order, leaves the store as it was, sleeps the
\* poll interval, and the loop is ready to run the next pass.
C3_GatewayFailureAborts ==
    [][FetchFailed(tick') =>
          /\ tick'.events = <<Sleep>>
          /\ sol_bot_state' = sol_bot_state
          /\ status' # "stopped" => status' = "running"]_vars

C3_Witness ==
    /\ FetchFailed(tick) /\ tick.events = <<Sleep>>
    /\ Stored = {10000} /\ status = "running"

\* C4: when the exchange rejects an order (Buy or Sell), the pass writes no
\* reference: the store is the same after the pass as before it, and the
\* next pass that reads the store evaluates against that same reference.
C4_RejectionKeepsReference ==
    [][/\ Rejected(tick') =>
             /\ ~Did(tick', "write")
             /\ sol_bot_state' = sol_bot_state
             /\ Stored' = tick'.base_price
       /\ (Rejected(tick) /\ HasRef(tick')) =>
             tick'.base_price = tick.base_price]_vars

C4_Witness ==
    /\ Rejected(tick) /\ Orders(tick, "Buy") # {}
    /\ tick.base_price = {10000} /\ tick.price = 9400
    /\ Stored = {10000}

\* C5: when the exchange rejects an order, the notifier is called in that
\* pass (by the time it sleeps) with a failure message and no success
\* message is sent.
C5_RejectionNotified ==
    (Rejected(tick) /\ Slept(tick)) =>
        /\ \E n \in {0, 1} : DidEv(tick, Ev("notify", "orderfail", n))
        /\ ~SuccessNotified(tick)

\* C6: on a pass, run to its end, with reference R where holdings * price
\* >= MIN_POSITION_USDT and price >= R * (1 + TP_PERCENT/100), exactly one
\* order is submitted, a Sell of all holdings rounded down to the quantity
\* step, and no Buy; when the order and the write succeed the store
\* afterwards holds the price of the pass.
C6_TakeProfitSellsAll ==
    (/\ HasRef(tick) /\ Ended(tick)
     /\ has_position(tick.sol_total, tick.price)
     /\ tick.price * 100 >= Ref(tick) * (100 + TP_PERCENT)) =>
        /\ Count(tick, "order") = 1
        /\ DidEv(tick, Ev("order", "Sell",
                          tick.sol_total \div (MicroPerMilli * QTY_STEP)))
        /\ Orders(tick, "Buy") = {}
        /\ (~Rejected(tick) /\ WroteOk(tick)) => Stored = {tick.price}

\* C7: on a pass with reference R where holdings * price >= MIN_POSITION_USDT
\* and price < R * (1 + TP_PERCENT/100), no order of either side is submitted
\* and nothing is written to the store, also when the price is at or below
\* the dip level and the quote balance suffices for a buy: the pass goes to
\* its sleep, unless the stop signal ends it before.
C7_InPositionBelowTpWaits ==
    [][(/\ HasRef(tick')
        /\ has_position(tick'.sol_total, tick'.price)
        /\ tick'.price * 100 < Ref(tick') * (100 + TP_PERCENT)) =>
          /\ ~Did(tick', "order")
          /\ ~Did(tick', "write")
          /\ ~Did(tick', "notify")
          /\ Slept(tick') \/ status' = "stopped"
          /\ sol_bot_state' = sol_bot_state]_vars

C7_Witness ==
    /\ HasRef(tick) /\ has_position(tick.sol_total, tick.price)
    /\ tick.price * 100 < Ref(tick) * (100 + TP_PERCENT)
    /\ tick.price * 100 <= Ref(tick) * (100 - DIP_PERCENT)
    /\ tick.usdt_available >= ORDER_USDT
    /\ tick.events = <<Ev("read", "ok", 0), Sleep>>
    /\ Stored = tick.base_price

\* C8: on a pass, run to its end, with reference R where holdings * price
\* < MIN_POSITION_USDT, price <= R * (1 - DIP_PERCENT/100) and quote balance
\* >= ORDER_USDT, exactly one order is submitted, a Buy of
\* floor(ORDER_USDT / price / step) steps, and no Sell; when the order and
\* the write succeed the store afterwards holds the price of the pass.
C8_DipBuysNotional ==
    (/\ HasRef(tick) /\ Ended(tick)
     /\ ~has_position(tick.sol_total, tick.price)
     /\ tick.price * 100 <= Ref(tick) * (100 - DIP_PERCENT)
     /\ tick.usdt_available >= ORDER_USDT) =>
        /\ tick.price > 0
        /\ Count(tick, "order") = 1
        /\ DidEv(tick, Ev("order", "Buy",
                          (ORDER_USDT * MilliPerSol) \div (tick.price * QTY_STEP)))
        /\ Orders(tick, "Sell") = {}
        /\ (~Rejected(tick) /\ WroteOk(tick)) => Stored = {tick.price}

\* C9: on a flat pass, run to its end, whose price is at or below the dip
\* level while the quote balance is below ORDER_USDT, no order is submitted,
\* nothing is written (the reference is unchanged) and the notifier is
\* called once, with the insufficient-funds warning.
C9_InsufficientFundsWarns ==
    (/\ HasRef(tick) /\ Ended(tick)
     /\ ~has_position(tick.sol_total, tick.price)
     /\ tick.price * 100 <= Ref(tick) * (100 - DIP_PERCENT)
     /\ tick.usdt_available < ORDER_USDT) =>
        /\ ~Did(tick, "order")
        /\ ~Did(tick, "write")
        /\ Stored = tick.base_price
        /\ Count(tick, "notify") = 1
        /\ \E n \in {0, 1} : DidEv(tick, Ev("notify", "nofunds", n))

\* C10: no outcome of a pass terminates the polling loop: every pass ends in
\* the sleep of the poll interval and main() ends only on the external stop
\* signal, for every price and reference, 0 included.
C10_LoopNeverTerminates ==
    /\ status \in {"running", "stopped"}
    /\ (Passed(tick) /\ status # "stopped") => Slept(tick)

\* The pass holds a position and its price is at or above the take-profit
\* level of the reference it read.
SellSignal(t) ==
    /\ HasRef(t) /\ Ref(t) > 0
    /\ has_position(t.sol_total, t.price)
    /\ t.price * 100 >= Ref(t) * (100 + TP_PERCENT)

\* The pass is flat with enough quote balance and its price, not 0, is at or
\* below the dip level of the reference it read.
BuySignal(t) ==
    /\ HasRef(t) /\ Ref(t) > 0 /\ t.price > 0
    /\ ~has_position(t.sol_total, t.price)
    /\ t.price * 100 <= Ref(t) * (100 - DIP_PERCENT)
    /\ t.usdt_available >= ORDER_USDT

\* The quantity of the signalled order quantizes to 0: holdings below one
\* step for a Sell, ORDER_USDT / price below one step for a Buy.
ZeroQuantity(t) ==
    \/ SellSignal(t) /\ t.sol_total < QTY_STEP * MicroPerMilli
    \/ BuySignal(t) /\ ORDER_USDT * MilliPerSol < t.price * QTY_STEP

\* C11: whenever the quantized quantity of the order is 0, no order request
\* reaches the exchange, the pass ends like one whose order was rejected
\* (no write, no success message, sleep unless the stop signal comes first)
\* and the store is unchanged.
C11_ZeroQuantityNoOrder ==
    [][ZeroQuantity(tick') =>
          /\ ~Did(tick', "order")
          /\ ~Did(tick', "write")
          /\ ~SuccessNotified(tick')
          /\ Slept(tick') \/ status' = "stopped"
          /\ status' # "crashed"
          /\ sol_bot_state' = sol_bot_state]_vars

C11_WitnessSell ==
    /\ SellSignal(tick) /\ tick.sol_total = 500 /\ tick.price = 3000000
    /\ tick.events = <<Ev("read", "ok", 0), Sleep>>
    /\ Stored = tick.base_price

C11_WitnessBuy ==
    /\ BuySignal(tick) /\ tick.price = 3000000 /\ tick.base_price = {3200000}
    /\ tick.events = <<Ev("read", "ok", 0), Sleep>>
    /\ Stored = {3200000}

\* C12: for every qty >= 0, quantize_qty(qty) is a non-negative whole number
\* of steps, is <= qty, differs from qty by less than one step, is
\* floor(qty / step) steps, is 0 whenever qty < step, and is 0 for every
\* qty <= 0.
C12_QuantizerContract ==
    \A r \in q_out :
        /\ r.den = 1 /\ r.num >= 0 /\ r.num % QTY_STEP = 0
        /\ q_in.num >= 0 =>
              /\ r.num * q_in.den <= q_in.num
              /\ q_in.num - r.num * q_in.den < QTY_STEP * q_in.den
              /\ r.num = (q_in.num \div (q_in.den * QTY_STEP)) * QTY_STEP
              /\ q_in.num < QTY_STEP * q_in.den => r.num = 0
        /\ q_in.num <= 0 => r.num = 0

\* The decision of the pass is Wait: it read a reference and is in position
\* strictly below the take-profit level, or flat strictly above the dip level.
WaitCase(t) ==
    /\ HasRef(t)
    /\ \/ /\ has_position(t.sol_total, t.price)
          /\ t.price * 100 < Ref(t) * (100 + TP_PERCENT)
       \/ /\ ~has_position(t.sol_total, t.price)
          /\ t.price * 100 > Ref(t) * (100 - DIP_PERCENT)

SameReadings(t, u) ==
    /\ t.price = u.price /\ t.sol_total = u.sol_total
    /\ t.usdt_available = u.usdt_available /\ t.base_price = u.base_price

\* C13: two consecutive Wait passes with the same price, balances and stored
\* reference do the same (read the reference and sleep, when the second is
\* not stopped before its sleep), submit no order and write nothing, so the
\* store after the second is the store before the first.
C13_WaitIsIdempotent ==
    [][(WaitCase(tick) /\ WaitCase(tick') /\ SameReadings(tick, tick')) =>
          /\ tick.events = <<Ev("read", "ok", 0), Sleep>>
          /\ \/ tick'.events = tick.events
             \/ /\ status' = "stopped"
                /\ tick'.events = <<Ev("read", "ok", 0)>>
          /\ sol_bot_state' = sol_bot_state
          /\ Stored' = tick.base_price
          /\ status' # "crashed"]_vars

\* A flat Wait pass below the reference (97.00 against 100.00) whose store
\* still holds the reference it read.
C13_Witness ==
    /\ WaitCase(tick) /\ ~has_position(tick.sol_total, tick.price)
    /\ tick.price = 9700 /\ tick.base_price = {10000}
    /\ tick.usdt_available >= ORDER_USDT
    /\ tick.events = <<Ev("read", "ok", 0), Sleep>>
    /\ Stored = {10000}

\* C14: on every pass that executes a trade, the write of the new reference
\* comes before the call of the notifier with the outcome, on the Sell path
\* and on the Buy path.
C14_WriteBeforeNotify ==
    \A i \in DOMAIN tick.events :
        (tick.events[i][1] = "notify" /\ tick.events[i][2] \in {"tp", "buy"}) =>
            \E j \in 1 .. (i - 1) : tick.events[j][1] = "write"

\* The answers the collaborators gave during pass t, read off its record;
\* an answer the pass did not ask for counts as a success.
AnswersOf(t) ==
    [price_ok |-> t.price_ok, bal_ok |-> t.bal_ok, price |-> t.price,
     sol_total |-> t.sol_total, usdt_available |-> t.usdt_available,
     read_ok |-> ~ReadFailed(t),
     write_ok |-> ~DidEv(t, Ev("write", "fail", t.price)),
     order_ok |-> ~Rejected(t),
     tg_ok |-> ~\E i \in DOMAIN t.events :
                   t.events[i][1] = "notify" /\ t.events[i][3] = 0]

\* Pass t with the delivery of its notification turned around.
Flip(t) ==
    [t EXCEPT !.events =
        [i \in DOMAIN t.events |->
            IF t.events[i][1] = "notify"
            THEN Ev("notify", t.events[i][2], 1 - t.events[i][3])
            ELSE t.events[i]]]

\* C15: a failure of the notifier is swallowed: had the notification of a
\* pass gone the other way (failed instead of delivered, or delivered
\* instead of failed), the pass would have submitted the same orders, done
\* the same store reads and writes in the same order, left the same store
\* and kept the loop running; after a successful Sell the write follows a
\* failed notification.
C15_NotifierFailureSwallowed ==
    [][(status' # "stopped" /\ Did(tick', "notify")) =>
          /\ \A a \in {[AnswersOf(tick') EXCEPT !.tg_ok = ~@]} :
                LoopBody(sol_bot_state, a)
                   = [rows |-> sol_bot_state', status |-> status', rec |-> Flip(tick')]
          /\ status' = "running"
          /\ DidEv(tick', Ev("notify", "tp", 0)) =>
                \E j \in DOMAIN tick'.events :
                    /\ tick'.events[j][1] = "write"
                    /\ \E i \in 1 .. (j - 1) :
                          tick'.events[i] = Ev("notify", "tp", 0)]_vars

\* A Sell whose success message could not be delivered and whose reference
\* write went through.
C15_Witness ==
    /\ DidEv(tick, Ev("notify", "tp", 0))
    /\ Orders(tick, "Sell") # {} /\ WroteOk(tick)
    /\ tick.base_price = {9400} /\ tick.price = 9776
    /\ Stored = {9776}

\* An order of the pass was accepted and the write of the new reference
\* that follows it failed.
WriteFailedAfterTrade(t) ==
    /\ Did(t, "order") /\ ~Rejected(t)
    /\ DidEv(t, Ev("write", "fail", t.price))

\* C16: when the reference write fails after an executed order, the trade
\* stands (that pass submits the one order and no second one), the loop
\* continues (the pass goes to its sleep, unless the stop signal ends it),
\* the store keeps the previous reference, and the next pass that reads the
\* store computes its thresholds from that previous reference.
C16_WriteFailureKeepsReference ==
    [][/\ WriteFailedAfterTrade(tick') =>
             /\ Count(tick', "order") = 1
             /\ Slept(tick') \/ status' = "stopped"
             /\ status' # "crashed"
             /\ sol_bot_state' = sol_bot_state
             /\ Stored' = tick'.base_price
       /\ (WriteFailedAfterTrade(tick) /\ Fetched(tick') /\ ReadOk(tick')) =>
             tick'.base_price = tick.base_price]_vars

\* A dip buy at 94.00 against the reference 100.00 whose write failed: the
\* store still holds 100.00.
C16_Witness ==
    /\ WriteFailedAfterTrade(tick) /\ Orders(tick, "Buy") # {}
    /\ tick.price = 9400 /\ tick.base_price = {10000}
    /\ Stored = {10000} /\ status = "running"

RowsOf(rows, symbol) == {r \in rows : r.symbol = symbol}

\* C17: the store holds zero or one reference for the pair in every state;
\* a write for a pair that has a value overwrites it and adds no second
\* one; and once a value is present the store is never empty again.
C17_AtMostOneReference ==
    [][/\ Cardinality(RowsOf(sol_bot_state, SYMBOL)) <= 1
       /\ Cardinality(RowsOf(sol_bot_state', SYMBOL)) <= 1
       /\ sol_bot_state' = RowsOf(sol_bot_state', SYMBOL)
       /\ sol_bot_state # {} => sol_bot_state' # {}
       /\ WroteOk(tick') => sol_bot_state' = {Row(SYMBOL, tick'.price)}]_vars

\* A take-profit at 97.76 has replaced the reference 94.00 it read.
C17_Witness ==
    /\ WroteOk(tick) /\ tick.base_price = {9400} /\ tick.price = 9776
    /\ sol_bot_state = {Row(SYMBOL, 9776)}

\* holdings * price >= MIN_POSITION_USDT on the readings of pass t, stated
\* as: holdings * price is not below it (cents times micro-SOL).
WorthAPosition(t) ==
    /\ t.price > 0
    /\ ~(t.sol_total <= (MIN_POSITION_USDT * 1000000 - 1) \div t.price)

\* C18: every pass submits at most one order; a Buy only when the readings
\* of the pass give holdings * price < MIN_POSITION_USDT, a Sell only when
\* they give holdings * price >= MIN_POSITION_USDT (equality included); and
\* no order on a pass that found no stored reference.
C18_OneOrderByPosition ==
    /\ Count(tick, "order") <= 1
    /\ Orders(tick, "Buy") # {} => ~WorthAPosition(tick)
    /\ Orders(tick, "Sell") # {} => WorthAPosition(tick)
    /\ Did(tick, "order") => HasRef(tick)

\* A Sell of holdings worth exactly 5.00 USDT (0.05 SOL at 100.00).
C18_Witness ==
    /\ Orders(tick, "Sell") # {} /\ Count(tick, "order") = 1
    /\ tick.sol_total = 50000 /\ tick.price = 10000
    /\ tick.base_price = {9400}

\* C19: every value written to the store is the price the price gateway
\* returned in the same pass; so a pass leaves in the store either what was
\* there or its own price, and a stored reference is positive as long as
\* the stored one was and the observed price is.
C19_StoredIsObservedPrice ==
    [][/\ \A i \in DOMAIN tick'.events :
             tick'.events[i][1] = "write" =>
                 /\ tick'.events[i][3] = tick'.price
                 /\ Fetched(tick')
       /\ Stored' \subseteq Stored \cup {tick'.price}
       /\ WroteOk(tick') => Stored' = {tick'.price}
       /\ ~Did(tick', "write") => Stored' = Stored
       /\ ((\A v \in Stored : v > 0) /\ tick'.price > 0) =>
             \A v \in Stored' : v > 0]_vars

\* A dip buy at 92.15 has made 92.15 the reference in place of 100.00.
C19_Witness ==
    /\ WroteOk(tick) /\ Orders(tick, "Buy") # {}
    /\ tick.price = 9215 /\ tick.base_price = {10000}
    /\ Stored = {9215}

\* C20: every order that reaches the exchange has a quantity of one or more
\* whole steps; a Buy has quantity * price <= ORDER_USDT <= the quote
\* balance read in the pass; a Sell has quantity <= the holdings read in the
\* pass.
C20_OrderQuantityBounds ==
    \A i \in DOMAIN tick.events :
        tick.events[i][1] = "order" =>
            LET k == tick.events[i][3]
            IN  /\ k >= QTY_STEP /\ k % QTY_STEP = 0
                /\ tick.events[i][2] \in {"Buy", "Sell"}
                /\ tick.events[i][2] = "Buy" =>
                      /\ tick.price > 0
                      /\ k <= (ORDER_USDT * MilliPerSol) \div tick.price
                      /\ ORDER_USDT <= tick.usdt_available
                /\ tick.events[i][2] = "Sell" =>
                      k * MicroPerMilli <= tick.sol_total

\* A Buy of 0.265 SOL at 94.00 (24.91 USDT) out of a balance of exactly
\* 25.00 USDT.
C20_Witness ==
    /\ DidEv(tick, Ev("order", "Buy", 265))
    /\ tick.price = 9400 /\ tick.usdt_available = ORDER_USDT
    /\ ~Rejected(tick)

====
